---- MODULE Spec2Model ----
(***************************************************************************)
(* Model of app.py: a Streamlit script whose main() is re-executed by the  *)
(* host on every front-end event and on st.rerun().  The model keeps the   *)
(* session state, the host-held value of the custom component, the         *)
(* position of the running execution of main(), and what the last call of  *)
(* call_gemini_image_api did.                                              *)
(*                                                                         *)
(* Python values: None is the empty tuple and a present value x is <<x>>.  *)
(* A base64 text is a sequence of characters, each character a number:     *)
(* 0..63 for the alphabet (its 6-bit value), Pad for '=', Bad for any      *)
(* character outside the alphabet.  Bytes are numbers 0..255.  A message   *)
(* built by an f-string is the sequence of its pieces.                     *)
(***************************************************************************)
EXTENDS Integers, Sequences, FiniteSets, TLC

VARIABLES
    component_value,  \* value the host keeps for key "transmutation_forge_key"
    session_state,    \* st.session_state: processing, result_payload
    pc,               \* position of the execution of main(), "idle" when none runs
    startedBy,        \* what started the current (or last) execution
    image_bytes,      \* main's local image_bytes
    result_b64,       \* main's local result_b64
    requests,         \* generate_content calls made by the last call_gemini_image_api
    svc,              \* outcome of the last request sent to the service
    st_errors,        \* st.error messages of the current execution
    injected,         \* payload handed to components.html in the current execution
    raised,           \* exception that left main() in the current execution
    callsThisAction,  \* call_gemini_image_api calls since the last user trigger
    API_KEY,          \* module-level API_KEY of the current execution
    stopped,          \* why st.stop() ended the current execution, if it did
    rendered,         \* the component was rendered in the current execution
    request           \* arguments of the last client.models.generate_content call

vars == <<component_value, session_state, pc, startedBy, image_bytes, result_b64,
          requests, svc, st_errors, injected, raised, callsThisAction,
          API_KEY, stopped, rendered, request>>

\* ---------------------------------------------------------------- bounds
MaxCalls == 3

\* ---------------------------------------------------------------- values
None == <<>>
Some(x) == <<x>>
Val(o) == o[1]

Pad == 64
Bad == 65
PNG_MAGIC == 137
JPEG_MAGIC == 255

\* ---------------------------------------------------------------- base64
\* binascii.a2b_base64 in its default (non strict) mode, which is what
\* base64.b64decode(s) runs: characters outside the alphabet are skipped, a
\* complete pad sequence ends the parse, a dangling quantum is an error.
RECURSIVE a2b_base64(_, _, _, _, _, _)
a2b_base64(s, i, quad_pos, leftchar, pads, out) ==
    IF i > Len(s)
    THEN IF quad_pos # 0
         THEN [ok |-> FALSE, exc |-> "binascii.Error", bytes |-> <<>>]
         ELSE [ok |-> TRUE, exc |-> "", bytes |-> out]
    ELSE LET ch == s[i] IN
         IF ch = Pad
         THEN IF quad_pos >= 2 /\ quad_pos + pads + 1 >= 4
              THEN [ok |-> TRUE, exc |-> "", bytes |-> out]
              ELSE a2b_base64(s, i + 1, quad_pos, leftchar,
                              IF quad_pos >= 2 THEN pads + 1 ELSE pads, out)
         ELSE IF ch >= 64
         THEN a2b_base64(s, i + 1, quad_pos, leftchar, pads, out)
         ELSE CASE quad_pos = 0 ->
                     a2b_base64(s, i + 1, 1, ch, 0, out)
                [] quad_pos = 1 ->
                     a2b_base64(s, i + 1, 2, ch % 16, 0,
                                Append(out, leftchar * 4 + (ch \div 16)))
                [] quad_pos = 2 ->
                     a2b_base64(s, i + 1, 3, ch % 4, 0,
                                Append(out, leftchar * 16 + (ch \div 4)))
                [] OTHER ->
                     a2b_base64(s, i + 1, 0, 0, 0,
                                Append(out, leftchar * 64 + ch))

\* base64.b64decode(b64_data): None is not bytes-like (TypeError).
b64decode(b64_data) ==
    IF b64_data = None
    THEN [ok |-> FALSE, exc |-> "TypeError", bytes |-> <<>>]
    ELSE a2b_base64(Val(b64_data), 1, 0, 0, 0, <<>>)

\* base64.b64encode(bytes): three bytes make four characters, the last
\* group is padded with '='.
RECURSIVE b64encode(_)
b64encode(b) ==
    IF Len(b) = 0 THEN <<>>
    ELSE IF Len(b) = 1
    THEN <<b[1] \div 4, (b[1] % 4) * 16, Pad, Pad>>
    ELSE IF Len(b) = 2
    THEN <<b[1] \div 4, (b[1] % 4) * 16 + (b[2] \div 16), (b[2] % 16) * 4, Pad>>
    ELSE <<b[1] \div 4, (b[1] % 4) * 16 + (b[2] \div 16),
           (b[2] % 16) * 4 + (b[3] \div 64), b[3] % 64>>
         \o b64encode(SubSeq(b, 4, Len(b)))

\* ---------------------------------------------------------------- PIL
\* Image.open(BytesIO(image_bytes)): a file is recognised by its leading
\* magic byte; what follows is the picture.  Anything else raises
\* UnidentifiedImageError.
ImageOpen(bytes) ==
    IF Len(bytes) >= 1 /\ bytes[1] \in {PNG_MAGIC, JPEG_MAGIC}
    THEN [ok |-> TRUE, pixels |-> Tail(bytes)]
    ELSE [ok |-> FALSE, pixels |-> <<>>]

\* image.save(temp_buffer, format="PNG"); temp_buffer.getvalue()
SavePNG(image) == <<PNG_MAGIC>> \o image.pixels

\* ---------------------------------------------------------------- inputs
Prompts == {None, Some(""), Some("make it blue")}
MimeTypes == {Some("image/png"), Some("image/jpeg")}

PngFile == <<PNG_MAGIC, 1>>
JpegFile == <<JPEG_MAGIC, 2, 3>>
TextFile == <<7>>

\* imageData values a front end can send: absent, empty, a PNG, a JPEG, a
\* file that is no image, a text with a stray character, a text cut short.
ImageDatas ==
    {None, Some(<<>>), Some(b64encode(PngFile)), Some(b64encode(JpegFile)),
     Some(b64encode(TextFile)), Some(<<Bad>> \o b64encode(PngFile)),
     Some(SubSeq(b64encode(PngFile), 1, 1))}

Dict(a, p, d, m) == [action |-> a, prompt |-> p, imageData |-> d, mimeType |-> m]
EmptyDict == Dict(None, None, None, None)

\* component values that carry action == 'generate'
Triggers ==
    {Some(Dict(Some("generate"), p, d, m)) : p \in Prompts, d \in ImageDatas, m \in MimeTypes}

\* component values without it: nothing sent yet, {}, another action
NonTriggers ==
    {None, Some(EmptyDict), Some(Dict(Some("result"), None, None, None)),
     Some(Dict(Some("reset"), Some("make it blue"), Some(b64encode(PngFile)), Some("image/png")))}

Outcome(k, d, j, x) == [kind |-> k, detail |-> d, json |-> j, image_data_base64 |-> x]

\* what client.models.generate_content can do: answer with an inner text
\* (a JSON object with or without image_data_base64, or no JSON at all),
\* raise APIError for a non-2xx status, or fail to connect.
ServiceOutcomes ==
    {Outcome("ok", "200", TRUE, Some(b64encode(<<65>>))),
     Outcome("ok", "200", TRUE, Some(b64encode(PngFile))),
     Outcome("ok", "200", TRUE, None),
     Outcome("ok", "200", FALSE, None),
     Outcome("APIError", "429 RESOURCE_EXHAUSTED", FALSE, None),
     Outcome("ConnectionError", "connection refused", FALSE, None)}

\* ---------------------------------------------------------------- helpers
\* Python truth value of an optional text: None and "" are false.
Truthy(o) == o # None /\ Len(Val(o)) > 0

\* as IsTrigger, but any action counts
IsTrigger_anyAction(user_data) ==
    /\ user_data # None
    /\ Val(user_data) # EmptyDict
    /\ Val(user_data).action # None

\* user_data and user_data.get('action') == 'generate'
IsTrigger(user_data) ==
    /\ user_data # None
    /\ Val(user_data) # EmptyDict
    /\ Val(user_data).action = Some("generate")

\* _transmutation_forge(initialLoad=True, key="transmutation_forge_key"):
\* the host returns the value it keeps for the key.
transmutation_forge == component_value

\* ---------------------------------------------------------------- call_gemini_image_api
CallResult(ret, n, errs, o) == [ret |-> ret, requests |-> n, errors |-> errs, svc |-> o]

\* as call_gemini_image_api, but a failed request is sent a second time
call_gemini_image_api_retry(prompt, bytes, mime_type, outcome) ==
    LET image == ImageOpen(bytes) IN
    IF ~image.ok
    THEN CallResult(None, 0,
             << <<"An unexpected error occurred: ", "UnidentifiedImageError">> >>, None)
    ELSE IF outcome.kind = "APIError"
    THEN CallResult(None, 2, << <<"Gemini API Error: ", outcome.detail>> >>, Some(outcome))
    ELSE IF outcome.kind # "ok"
    THEN CallResult(None, 2,
             << <<"An unexpected error occurred: ", outcome.detail>> >>, Some(outcome))
    ELSE CallResult(Some(b64encode(SavePNG(image))), 1, <<>>, Some(outcome))

call_gemini_image_api(prompt, bytes, mime_type, outcome) ==
    LET image == ImageOpen(bytes) IN
    IF ~image.ok
    THEN CallResult(None, 0,
             << <<"An unexpected error occurred: ", "UnidentifiedImageError">> >>, None)
    ELSE IF outcome.kind = "APIError"
    THEN CallResult(None, 1, << <<"Gemini API Error: ", outcome.detail>> >>, Some(outcome))
    ELSE IF outcome.kind # "ok"
    THEN CallResult(None, 1,
             << <<"An unexpected error occurred: ", outcome.detail>> >>, Some(outcome))
    ELSE CallResult(Some(b64encode(SavePNG(image))), 1, <<>>, Some(outcome))

\* str() of an optional text inside an f-string: None prints as "None"
PyStr(o) == IF o = None THEN "None" ELSE Val(o)

\* the arguments of client.models.generate_content at lines 58-64: the model
\* name, the opened image and the instruction text; no mime type and no
\* config (response schema) are passed
generate_content_args(prompt, bytes, mime_type) ==
    [model |-> "gemini-2.5-flash",
     image |-> ImageOpen(bytes),
     text |-> <<"Perform image-to-image modification based on this instruction: ",
                PyStr(prompt), ". Return only the resulting image.">>,
     mime_type |-> None,
     config |-> None]

\* ---------------------------------------------------------------- startup
\* what st.secrets can hold for GEMINI_API_KEY at line 21
Secrets == {None, Some("key")}

\* lines 20-31 with the key missing or the client failing: st.error, st.stop()
StartupStops(key, client_ok) ==
    /\ pc' = "idle"
    /\ API_KEY' = key
    /\ stopped' = IF key = None THEN Some("KeyError") ELSE Some("ClientError")
    /\ st_errors' = st_errors \o
         (IF key = None
          THEN << <<"GEMINI_API_KEY not found in Streamlit secrets. Please configure it.">> >>
          ELSE << <<"Failed to initialize Gemini Client: ", "client error">> >>)
    /\ UNCHANGED <<component_value, session_state, startedBy, image_bytes, result_b64,
                   requests, svc, injected, raised, callsThisAction, rendered, request>>

\* lines 20-31 with key and client in place: the script goes on to main()
StartupPasses(key, client_ok) ==
    /\ pc' = "l142"
    /\ API_KEY' = key
    /\ UNCHANGED <<component_value, session_state, startedBy, image_bytes, result_b64,
                   requests, svc, st_errors, injected, raised, callsThisAction, stopped,
                   rendered, request>>

\* as Startup, but a missing key is reported without st.stop()
Startup_noStop(key, client_ok) ==
    /\ pc = "l20"
    /\ pc' = "l142"
    /\ API_KEY' = key
    /\ stopped' = IF key = None THEN Some("KeyError") ELSE None
    /\ UNCHANGED <<component_value, session_state, startedBy, image_bytes, result_b64,
                   requests, svc, st_errors, injected, raised, callsThisAction,
                   rendered, request>>

\* the top of the script, lines 20-31
Startup(key, client_ok) ==
    /\ pc = "l20"
    /\ IF key = None \/ ~client_ok
       THEN StartupStops(key, client_ok)
       ELSE StartupPasses(key, client_ok)

\* ---------------------------------------------------------------- main
\* the payload main stores after the call
\* as ResultPayload, but the failure branch forgets the error text
ResultPayload_noError(r) ==
    IF Truthy(r)
    THEN [action |-> "result", base64Data |-> r, error |-> None]
    ELSE [action |-> "result", base64Data |-> None, error |-> None]

ResultPayload(r) ==
    IF Truthy(r)
    THEN [action |-> "result", base64Data |-> r, error |-> None]
    ELSE [action |-> "result", base64Data |-> None,
          error |-> Some(<<"API call failed. Check server logs.">>)]

HasPayload == session_state.result_payload # None

Init ==
    /\ component_value = None
    /\ session_state = [processing |-> None, result_payload |-> None]
    /\ pc = "idle"
    /\ startedBy = "none"
    /\ image_bytes = <<>>
    /\ result_b64 = None
    /\ requests = 0
    /\ svc = None
    /\ st_errors = <<>>
    /\ injected = None
    /\ raised = None
    /\ callsThisAction = 0
    /\ API_KEY = None
    /\ stopped = None
    /\ rendered = FALSE
    /\ request = None

\* a new execution starts with fresh locals and a fresh page
StartExecution(by) ==
    /\ pc' = "l20"
    /\ API_KEY' = None
    /\ stopped' = None
    /\ rendered' = FALSE
    /\ request' = None
    /\ startedBy' = by
    /\ image_bytes' = <<>>
    /\ result_b64' = None
    /\ requests' = 0
    /\ svc' = None
    /\ st_errors' = <<>>
    /\ injected' = None
    /\ raised' = None

\* no execution of main is running: the last one finished, or it ended at
\* st.rerun() and the next one has not begun
BetweenExecutions == pc \in {"idle", "l186"}

\* the user clicks 'Forge': the front end sets the component value and the
\* host executes the script
UserForge(v) ==
    /\ BetweenExecutions
    /\ rendered
    /\ component_value' = v
    /\ callsThisAction' = 0
    /\ StartExecution("user")
    /\ UNCHANGED session_state

\* the front end sets a component value that is no generate trigger
FrontEndSet(v) ==
    /\ BetweenExecutions
    /\ rendered
    /\ component_value' = v
    /\ StartExecution("frontend")
    /\ UNCHANGED <<session_state, callsThisAction>>

\* a refresh: the host executes the script again with the widget state it keeps
Refresh ==
    /\ pc = "idle"
    /\ StartExecution("refresh")
    /\ UNCHANGED <<component_value, session_state, callsThisAction>>

\* main, lines 142-154, trigger detected and imageData decoded
MainTrigger ==
    /\ pc = "l142"
    /\ rendered' = TRUE
    /\ UNCHANGED <<API_KEY, stopped, request>>
    /\ IsTrigger(transmutation_forge)
    /\ LET user_data == Val(transmutation_forge)
           dec == b64decode(user_data.imageData)
       IN /\ dec.ok
          /\ session_state' = [session_state EXCEPT !.processing = Some(TRUE)]
          /\ image_bytes' = dec.bytes
          /\ pc' = "l158"
    /\ UNCHANGED <<component_value, startedBy, result_b64, requests, svc, st_errors,
                   injected, raised, callsThisAction>>

\* main, lines 142-154, trigger detected and base64.b64decode raises: nothing
\* in main catches it, the execution ends there
MainDecodeRaises ==
    /\ pc = "l142"
    /\ rendered' = TRUE
    /\ UNCHANGED <<API_KEY, stopped, request>>
    /\ IsTrigger(transmutation_forge)
    /\ LET user_data == Val(transmutation_forge)
           dec == b64decode(user_data.imageData)
       IN /\ ~dec.ok
          /\ session_state' = [session_state EXCEPT !.processing = Some(TRUE)]
          /\ raised' = Some(dec.exc)
          /\ pc' = "idle"
    /\ UNCHANGED <<component_value, startedBy, image_bytes, result_b64, requests, svc,
                   st_errors, injected, callsThisAction>>

\* main, line 158: the call, with the service's answer chosen by the service
MainCall ==
    /\ pc = "l158"
    /\ \E outcome \in ServiceOutcomes :
         LET user_data == Val(transmutation_forge)
             r == call_gemini_image_api(user_data.prompt, image_bytes,
                                        user_data.mimeType, outcome)
         IN /\ result_b64' = r.ret
            /\ requests' = r.requests
            /\ svc' = r.svc
            /\ st_errors' = st_errors \o r.errors
            /\ request' = IF r.requests > 0
                           THEN Some(generate_content_args(user_data.prompt, image_bytes,
                                                           user_data.mimeType))
                           ELSE None
    /\ UNCHANGED <<API_KEY, stopped, rendered>>
    /\ callsThisAction' = IF callsThisAction < MaxCalls THEN callsThisAction + 1
                          ELSE callsThisAction
    /\ pc' = "l160"
    /\ UNCHANGED <<component_value, session_state, startedBy, image_bytes, injected, raised>>

\* main, lines 160-186: processing off, payload stored, st.rerun()
MainStore ==
    /\ pc = "l160"
    /\ UNCHANGED <<API_KEY, stopped, rendered, request>>
    /\ session_state' = [processing |-> Some(FALSE),
                         result_payload |-> Some(ResultPayload(result_b64))]
    /\ pc' = "l186"
    /\ UNCHANGED <<component_value, startedBy, image_bytes, result_b64, requests, svc,
                   st_errors, injected, raised, callsThisAction>>

\* st.rerun(): the host executes the script again; the component keeps its
\* value under its key
Rerun ==
    /\ pc = "l186"
    /\ StartExecution("rerun")
    /\ UNCHANGED <<component_value, session_state, callsThisAction>>

\* as MainRelay, but the relay also drops the processing flag from the session
MainRelay_clearsAll ==
    /\ pc = "l142"
    /\ rendered' = TRUE
    /\ UNCHANGED <<API_KEY, stopped, request>>
    /\ ~IsTrigger(transmutation_forge)
    /\ HasPayload
    /\ injected' = session_state.result_payload
    /\ session_state' = [processing |-> None, result_payload |-> None]
    /\ pc' = "idle"
    /\ UNCHANGED <<component_value, startedBy, image_bytes, result_b64, requests, svc,
                   st_errors, raised, callsThisAction>>

\* main, lines 142-145 and 189-207, no trigger: a pending payload is popped
\* and injected
MainRelay ==
    /\ pc = "l142"
    /\ rendered' = TRUE
    /\ UNCHANGED <<API_KEY, stopped, request>>
    /\ ~IsTrigger(transmutation_forge)
    /\ HasPayload
    /\ injected' = session_state.result_payload
    /\ session_state' = [session_state EXCEPT !.result_payload = None]
    /\ pc' = "idle"
    /\ UNCHANGED <<component_value, startedBy, image_bytes, result_b64, requests, svc,
                   st_errors, raised, callsThisAction>>

\* main, lines 142-145 and 189, no trigger and nothing to relay
MainNothing ==
    /\ pc = "l142"
    /\ rendered' = TRUE
    /\ UNCHANGED <<API_KEY, stopped, request>>
    /\ ~IsTrigger(transmutation_forge)
    /\ ~HasPayload
    /\ pc' = "idle"
    /\ UNCHANGED <<component_value, session_state, startedBy, image_bytes, result_b64,
                   requests, svc, st_errors, injected, raised, callsThisAction>>

Main == MainTrigger \/ MainDecodeRaises \/ MainCall \/ MainStore \/ MainRelay \/ MainNothing

Next ==
    \/ \E v \in Triggers : UserForge(v)
    \/ \E v \in NonTriggers : FrontEndSet(v)
    \/ Refresh
    \/ \E key \in Secrets, client_ok \in BOOLEAN : Startup(key, client_ok)
    \/ MainTrigger
    \/ MainDecodeRaises
    \/ MainCall
    \/ MainStore
    \/ Rerun
    \/ MainRelay
    \/ MainNothing

Spec == Init /\ [][Next]_vars

\* the host runs a started execution to its end and honours st.rerun()
FairSpec ==
    /\ Spec
    /\ WF_vars(Main)
    /\ WF_vars(Rerun)
    /\ WF_vars(\E key \in Secrets, client_ok \in BOOLEAN : Startup(key, client_ok))

\* ---------------------------------------------------------------- properties
Payload == Val(session_state.result_payload)
UserData == Val(component_value)
Contains(msg, piece) == \E i \in DOMAIN msg : msg[i] = piece
ErrorOnly(p) == p.error # None /\ p.base64Data = None

\* C1: the Generation Client is invoked at most once per user-triggered
\* action: after a user trigger, re-executions by st.rerun() or by a refresh
\* do not call call_gemini_image_api again.
C1_AtMostOncePerAction == callsThisAction <= 1

\* C2: a generate trigger whose prompt or imageData is empty or absent never
\* reaches call_gemini_image_api, never ends in an exception, and ends with a
\* stored payload that has error set and base64Data absent.
C2_InvalidTriggerNoCall ==
    (IsTrigger(component_value)
       /\ (~Truthy(UserData.prompt) \/ ~Truthy(UserData.imageData)))
    => /\ pc \notin {"l158", "l160"}
       /\ raised = None
       /\ (pc = "l186" => HasPayload /\ ErrorOnly(Payload))

\* C3: every generate trigger that main starts processing (it stands at the
\* call of the Generation Client) leads to an
\* execution that relays the result and leaves nothing pending: no payload
\* in the session and no trigger in the component value.  Executions halted
\* at startup by st.stop() or ended by an exception are left out here (the
\* latter are the subject of C4), so what remains is the chain of
\* re-executions that st.rerun() starts once the user has stopped clicking.
C3_TriggerLeadsToRelay ==
    <>[](startedBy # "user") =>
      ((pc = "l158")
       ~> \/ pc = "idle" /\ injected # None /\ ~HasPayload /\ ~IsTrigger(component_value)
          \/ stopped # None
          \/ raised # None)

\* C4: no exception raised while main processes a generate trigger leaves
\* main uncaught.
C4_NoUncaughtException == raised = None

\* C5: a stored result payload is consumed exactly once by the relay step:
\* it is never replaced by a later payload before it was relayed, and it
\* leaves the session only by being injected.
C5_ConsumedExactlyOnce ==
    [][ /\ (pc = "l160" /\ pc' = "l186") => ~HasPayload
        /\ (HasPayload /\ ~HasPayload') => injected' = session_state.result_payload ]_vars

\* C6: every payload main stores or relays has action 'result' and has error
\* present iff base64Data is absent; the payload stored after the call holds
\* the returned text and no error on success, no data and a non-empty
\* message on failure.
WellFormedPayload(p) ==
    /\ p.action = "result"
    /\ (p.error # None) <=> (p.base64Data = None)
    /\ p.error # None => Val(p.error) # <<>> /\ \A i \in DOMAIN Val(p.error) : Val(p.error)[i] # ""
    /\ p.base64Data # None => Val(p.base64Data) # <<>>

C6_PayloadShape ==
    /\ HasPayload => WellFormedPayload(Payload)
    /\ injected # None => WellFormedPayload(Val(injected))
    /\ pc = "l186" =>
         /\ HasPayload
         /\ result_b64 # None => Payload.base64Data = result_b64 /\ Payload.error = None
         /\ result_b64 = None => ErrorOnly(Payload)

C6_Witness ==
    /\ pc = "idle"
    /\ injected # None
    /\ Val(injected).base64Data = Some(b64encode(<<PNG_MAGIC, 2, 3>>))

\* C7: when the service answers with a JSON text that has image_data_base64
\* = X, the call returns X.
C7_ReturnsServiceData ==
    (pc = "l160" /\ svc # None /\ Val(svc).kind = "ok" /\ Val(svc).json
       /\ Val(svc).image_data_base64 # None)
    => result_b64 = Val(svc).image_data_base64

\* C8: when the service answers with a text that is no JSON or that lacks
\* image_data_base64, the call returns no image data and main stores a
\* payload with error set and base64Data absent.
C8_MalformedResponseFails ==
    (svc # None /\ Val(svc).kind = "ok"
       /\ (~Val(svc).json \/ Val(svc).image_data_base64 = None))
    => /\ pc = "l160" => result_b64 = None
       /\ pc = "l186" => HasPayload /\ ErrorOnly(Payload)

\* C9: when the request fails at transport level the call returns a failure
\* after one request and main stores a payload with base64Data absent and
\* an error that contains the status/detail of the failure.
C9_TransportFailureSurfaced ==
    (svc # None /\ Val(svc).kind # "ok")
    => /\ pc = "l160" => result_b64 = None /\ requests = 1
       /\ pc = "l186" => /\ HasPayload
                         /\ ErrorOnly(Payload)
                         /\ Contains(Val(Payload.error), Val(svc).detail)

\* C10 as stated: each invocation of call_gemini_image_api sends exactly one
\* request, whatever the image bytes are.
C10_ExactlyOneRequest == pc = "l160" => requests = 1

\* C10 amended: each invocation sends at most one request: exactly one when
\* the image bytes open as an image, whether the request succeeds or fails,
\* and none when they do not.
C10_AtMostOneRequest ==
    pc = "l160" =>
      /\ requests <= 1
      /\ requests = 1 <=> ImageOpen(image_bytes).ok
      /\ requests = 1 <=> svc # None

C10_Witness ==
    /\ pc = "l160"
    /\ requests = 1
    /\ svc # None
    /\ Val(svc).kind = "APIError"

HasGenerateAction ==
    component_value # None /\ UserData.action = Some("generate")

\* C11: when the API key is missing at startup the execution halts there:
\* the component is not rendered, the trigger handling does not run, no call
\* is made, nothing is injected, and the session state is left as it was.
C11_MissingKeyHalts ==
    /\ [](stopped = Some("KeyError") =>
            /\ pc = "idle"
            /\ API_KEY = None
            /\ ~rendered
            /\ requests = 0 /\ svc = None /\ request = None /\ result_b64 = None
            /\ injected = None)
    /\ [][stopped' = Some("KeyError") =>
            /\ session_state' = session_state
            /\ callsThisAction' = callsThisAction]_vars

C11_Witness ==
    /\ stopped = Some("KeyError")
    /\ HasGenerateAction
    /\ HasPayload
    /\ startedBy = "rerun"

\* C12: an execution in which the component value is absent or has an action
\* other than 'generate' never calls call_gemini_image_api and never issues
\* st.rerun(): the call and the rerun happen only under a 'generate' action.
C12_OnlyGenerateCalls ==
    /\ pc \in {"l158", "l160", "l186"} => HasGenerateAction
    /\ (pc = "idle" /\ rendered /\ ~HasGenerateAction) =>
          requests = 0 /\ svc = None /\ request = None /\ result_b64 = None

C12_Witness ==
    /\ pc = "idle"
    /\ rendered
    /\ component_value # None
    /\ UserData.action = Some("reset")
    /\ UserData.imageData # None
    /\ injected # None

\* C13: an execution without a generate trigger changes nothing in the
\* session state except that it removes a pending result_payload, and no step
\* of the script, with or without a trigger, changes the image and prompt the
\* front end holds.
C13_SessionDataSurvives ==
    [][ /\ (pc \in {"l20", "l142"} /\ ~HasGenerateAction) =>
              /\ session_state'.processing = session_state.processing
              /\ session_state'.result_payload \in {session_state.result_payload, None}
        /\ pc \notin {"idle", "l186"} => component_value' = component_value
        /\ (pc = "l186" /\ startedBy' = "rerun") => component_value' = component_value ]_vars

C13_Witness ==
    /\ pc = "idle"
    /\ rendered
    /\ ~HasGenerateAction
    /\ injected # None
    /\ session_state.processing = Some(FALSE)
    /\ ~HasPayload

\* C14: the request sent to the service carries the trigger's prompt, the
\* trigger's image, the trigger's mimeType and a declared response schema.
C14_RequestContents ==
    (pc = "l160" /\ request # None) =>
       /\ Contains(Val(request).text, PyStr(UserData.prompt))
       /\ Val(request).image = ImageOpen(image_bytes)
       /\ Val(request).mime_type = UserData.mimeType
       /\ Val(request).config # None

\* C15: whenever an execution of main has ended (at st.rerun(), normally, or
\* by an exception raised while handling the trigger) session_state.processing
\* is False or unset.
C15_ProcessingOffAtEnd ==
    BetweenExecutions => session_state.processing # Some(TRUE)

\* C16: an execution that detects a generate trigger always stores
\* result_payload and ends at st.rerun() without relaying; a payload is
\* injected only by an execution that detected no trigger.
C16_TriggerStoresAndReruns ==
    /\ (pc = "idle" /\ rendered) => ~HasGenerateAction
    /\ pc = "l186" => HasPayload /\ injected = None
    /\ injected # None => ~HasGenerateAction
====
